---- MODULE Spec2Model ----
(***************************************************************************)
(* The asset container of crates/rust-analyzer/src/asset.rs: a Project is  *)
(* encoded into a seekable byte sink (header, file records, trailing       *)
(* string table with a patched offset) and decoded back.                   *)
(*                                                                         *)
(* Bytes are the numbers 0..255 and a byte stream is a sequence of them.   *)
(* A usize (64 bit) is its 8 little-endian bytes, so that `x as u32` is    *)
(* exactly "keep the low four bytes"; counts, lengths, indices and stream  *)
(* positions are naturals below 2^31.                                      *)
(***************************************************************************)
EXTENDS Naturals, Sequences, FiniteSets

VARIABLES project, pc, sink, start, builder, scan, posOff, fi, encResult,
          tamper, reader, dec, stringTable, files, decResult

vars == <<project, pc, sink, start, builder, scan, posOff, fi, encResult,
          tamper, reader, dec, stringTable, files, decResult>>

encVars == <<sink, builder, scan, posOff, fi, encResult>>
decVars == <<reader, dec, stringTable, files, decResult>>

(***************************************************************************)
(* Bounds of the model.                                                    *)
(***************************************************************************)
\* files + nodes + annotations of a Project
MaxItems == 3
\* how far past the true string-table offset a corrupted offset may point
MaxShift == 8

(***************************************************************************)
(* Program constants.                                                      *)
(***************************************************************************)
MAGIC == 222
ASSET_ENCODING_VERSION == 1

(***************************************************************************)
(* Input universes: strings are UTF-8 byte sequences.                      *)
(***************************************************************************)
Empty == <<>>
StrA == <<97>>
StrF == <<70>>
\* eight bytes that happen to spell a one-entry string table: count 1, length 0
StrTab == <<1, 0, 0, 0, 0, 0, 0, 0>>

Paths == {StrA, StrTab}
Contents == {Empty, StrTab}
NodeTypes == {StrA, StrF}
AnnTexts == {Empty, StrF}

\* usize values as 8 little-endian bytes: 0, 3, 10, 2^32 and 2^32 + 7
Usize0 == <<0, 0, 0, 0, 0, 0, 0, 0>>
Usize3 == <<3, 0, 0, 0, 0, 0, 0, 0>>
Usize10 == <<10, 0, 0, 0, 0, 0, 0, 0>>
UsizeBig == <<0, 0, 0, 0, 1, 0, 0, 0>>
UsizeBig7 == <<7, 0, 0, 0, 1, 0, 0, 0>>

Range(o, e) == [offset |-> o, end_offset |-> e]
\* every value below 2^32
PlainRanges == {Range(Usize0, Usize10)}
\* the second range has offset > end_offset and both at or above 2^32
Ranges == {Range(Usize3, Usize10), Range(UsizeBig7, UsizeBig)}

Node(r, t) == [range |-> r, node_type |-> t]
Annotation(r, t) == [range |-> r, text |-> t]
File(p, c, t, e) == [path |-> p, content |-> c, tree |-> t, errors |-> e]

\* the sinks handed to encode: a fresh Cursor, and one already holding a byte
Sinks == {[buf |-> <<>>, pos |-> 0], [buf |-> <<7>>, pos |-> 1]}

(***************************************************************************)
(* Results: anyhow::Result<T>.                                             *)
(***************************************************************************)
Ok(v) == [ok |-> TRUE, err |-> "none", val |-> v]
Err(e) == [ok |-> FALSE, err |-> e, val |-> <<>>]
Pending == [ok |-> FALSE, err |-> "pending", val |-> <<>>]

(***************************************************************************)
(* Integers and bytes.                                                     *)
(***************************************************************************)
\* (n as u32).to_le_bytes() for a natural n: the low four bytes
U32Le(n) == <<n % 256, (n \div 256) % 256, (n \div 65536) % 256,
              (n \div 16777216) % 256>>

\* (x as u32).to_le_bytes() for a usize x: the high four bytes are dropped
UsizeAsU32Le(x) == SubSeq(x, 1, 4)

\* u32::from_le_bytes
U32FromLe(b) == b[1] + 256 * b[2] + 65536 * b[3] + 16777216 * b[4]

\* (v as usize) for a u32 v, as the 8 bytes of the usize
U32AsUsize(v) == U32Le(v) \o <<0, 0, 0, 0>>

Zeros(n) == [i \in 1..n |-> 0]

(***************************************************************************)
(* std::io::Cursor<Vec<u8>>: write_all, seek, read_exact.                  *)
(***************************************************************************)
WriteAll(c, bs) ==
    LET padded == IF c.pos > Len(c.buf)
                  THEN c.buf \o Zeros(c.pos - Len(c.buf))
                  ELSE c.buf
        stop == c.pos + Len(bs)
        n == IF stop > Len(padded) THEN stop ELSE Len(padded)
    IN  [buf |-> [i \in 1..n |-> IF i > c.pos /\ i <= stop
                                 THEN bs[i - c.pos]
                                 ELSE padded[i]],
         pos |-> stop]

Seek(c, p) == [c EXCEPT !.pos = p]

(***************************************************************************)
(* StringTableBuilder.                                                     *)
(***************************************************************************)
EmptyBuilder == [map |-> <<>>, vec |-> <<>>]

AddNoCheck(b, s) ==
    [map |-> [k \in DOMAIN b.map \cup {s} |-> IF k = s THEN Len(b.vec) ELSE b.map[k]],
     vec |-> Append(b.vec, s)]

Add(b, s) ==
    IF s \notin DOMAIN b.map
    THEN [map |-> [k \in DOMAIN b.map \cup {s} |->
                      IF k = s THEN Len(b.vec) ELSE b.map[k]],
          vec |-> Append(b.vec, s)]
    ELSE b

Idx(b, s) == IF s \in DOMAIN b.map THEN Ok(b.map[s]) ELSE Err("string not found")

RECURSIVE TableEntries(_)
TableEntries(v) ==
    IF v = <<>> THEN <<>>
    ELSE U32Le(Len(Head(v))) \o Head(v) \o TableEntries(Tail(v))

\* StringTableBuilder::write
TableBytes(b) == U32Le(Len(b.vec)) \o TableEntries(b.vec)

(***************************************************************************)
(* Project::encode, first loop: the strings scanned, in scan order.        *)
(***************************************************************************)
FileTextsNoErrors(f) ==
    <<f.path, f.content>> \o [i \in 1..Len(f.tree) |-> f.tree[i].node_type]

FileTexts(f) ==
    <<f.path, f.content>>
      \o [i \in 1..Len(f.tree) |-> f.tree[i].node_type]
      \o [i \in 1..Len(f.errors) |-> f.errors[i].text]

RECURSIVE AllTexts(_)
AllTexts(p) == IF p = <<>> THEN <<>> ELSE FileTexts(Head(p)) \o AllTexts(Tail(p))

(***************************************************************************)
(* Project::encode, second loop: what one file record writes, in order.    *)
(* An item is either raw bytes or a string whose index is looked up.       *)
(***************************************************************************)
Raw(bs) == [str |-> FALSE, s |-> <<>>, b |-> bs]
Str(x) == [str |-> TRUE, s |-> x, b |-> <<>>]

RECURSIVE Flatten(_)
Flatten(ss) == IF ss = <<>> THEN <<>> ELSE Head(ss) \o Flatten(Tail(ss))

NodeItemsSwapped(n) ==
    <<Raw(UsizeAsU32Le(n.range.end_offset)), Raw(UsizeAsU32Le(n.range.offset)),
      Str(n.node_type)>>

NodeItems(n) ==
    <<Raw(UsizeAsU32Le(n.range.offset)), Raw(UsizeAsU32Le(n.range.end_offset)),
      Str(n.node_type)>>

AnnItems(a) ==
    <<Raw(UsizeAsU32Le(a.range.offset)), Raw(UsizeAsU32Le(a.range.end_offset)),
      Str(a.text)>>

FileItems(f) ==
    <<Str(f.path), Str(f.content), Raw(U32Le(Len(f.tree)))>>
      \o Flatten([i \in 1..Len(f.tree) |-> NodeItems(f.tree[i])])
      \o <<Raw(U32Le(Len(f.errors)))>>
      \o Flatten([i \in 1..Len(f.errors) |-> AnnItems(f.errors[i])])

\* the writes of one record, stopping at the first failing idx (the `?`)
RECURSIVE WriteItems(_, _, _)
WriteItems(c, items, b) ==
    IF items = <<>> THEN [ok |-> TRUE, cur |-> c]
    ELSE LET it == Head(items)
         IN  IF it.str
             THEN IF Idx(b, it.s).ok
                  THEN WriteItems(WriteAll(c, U32Le(Idx(b, it.s).val)), Tail(items), b)
                  ELSE [ok |-> FALSE, cur |-> c]
             ELSE WriteItems(WriteAll(c, it.b), Tail(items), b)

(***************************************************************************)
(* Size of a Project: its files, nodes and annotations.                    *)
(***************************************************************************)
RECURSIVE Size(_)
Size(p) ==
    IF p = <<>> THEN 0
    ELSE 1 + Len(Head(p).tree) + Len(Head(p).errors) + Size(Tail(p))

NoTamper == [kind |-> "none", at |-> 0, val |-> 0, rest |-> "keep"]
NoReader == [buf |-> <<>>, pos |-> 0, log |-> {}]
NoDec == [version |-> 0, string_table_offset |-> 0, num_files |-> 0, files_start |-> 0]

(***************************************************************************)
(* Initial state: an empty Project under construction and the sink.        *)
(***************************************************************************)
InitWith(sinks) ==
    /\ project = <<>>
    /\ pc = "build"
    /\ sink \in sinks
    /\ start = sink.pos
    /\ builder = EmptyBuilder
    /\ scan = 0
    /\ posOff = 0
    /\ fi = 1
    /\ encResult = Pending
    /\ tamper = NoTamper
    /\ reader = NoReader
    /\ dec = NoDec
    /\ stringTable = <<>>
    /\ files = <<>>
    /\ decResult = Pending

Init == InitWith(Sinks)

(***************************************************************************)
(* Building the Project (the caller of encode).                            *)
(***************************************************************************)
PushFile ==
    /\ pc = "build"
    /\ Size(project) < MaxItems
    /\ \E p \in Paths, c \in Contents :
          project' = Append(project, File(p, c, <<>>, <<>>))
    /\ UNCHANGED <<pc, start, tamper>>
    /\ UNCHANGED encVars
    /\ UNCHANGED decVars

PushNode(rs) ==
    /\ pc = "build"
    /\ project # <<>>
    /\ Size(project) < MaxItems
    /\ \E r \in rs, t \in NodeTypes :
          project' = [project EXCEPT ![Len(project)].tree = Append(@, Node(r, t))]
    /\ UNCHANGED <<pc, start, tamper>>
    /\ UNCHANGED encVars
    /\ UNCHANGED decVars

PushError(rs) ==
    /\ pc = "build"
    /\ project # <<>>
    /\ Size(project) < MaxItems
    /\ \E r \in rs, t \in AnnTexts :
          project' = [project EXCEPT ![Len(project)].errors = Append(@, Annotation(r, t))]
    /\ UNCHANGED <<pc, start, tamper>>
    /\ UNCHANGED encVars
    /\ UNCHANGED decVars

(***************************************************************************)
(* Project::encode.                                                        *)
(***************************************************************************)
\* line 64: the call, with a default builder
StartEncode ==
    /\ pc = "build"
    /\ pc' = "scan"
    /\ builder' = EmptyBuilder
    /\ scan' = 0
    /\ UNCHANGED <<project, start, tamper, sink, posOff, fi, encResult>>
    /\ UNCHANGED decVars

\* lines 65-74: one string_table.add of the scan
EncAdd ==
    /\ pc = "scan"
    /\ scan < Len(AllTexts(project))
    /\ builder' = Add(builder, AllTexts(project)[scan + 1])
    /\ scan' = scan + 1
    /\ UNCHANGED <<project, pc, start, tamper, sink, posOff, fi, encResult>>
    /\ UNCHANGED decVars

\* lines 76-80: magic, version, the placeholder and the file count
EncHeader ==
    /\ pc = "scan"
    /\ scan = Len(AllTexts(project))
    /\ LET s1 == WriteAll(sink, <<MAGIC>>)
           s2 == WriteAll(s1, U32Le(ASSET_ENCODING_VERSION))
           s3 == WriteAll(s2, U32Le(0))
           s4 == WriteAll(s3, U32Le(Len(project)))
       IN  /\ posOff' = s2.pos
           /\ sink' = s4
    /\ pc' = "files"
    /\ fi' = 1
    /\ UNCHANGED <<project, start, tamper, builder, scan, encResult>>
    /\ UNCHANGED decVars

\* lines 82-97: one file record
EncFile ==
    /\ pc = "files"
    /\ fi <= Len(project)
    /\ LET w == WriteItems(sink, FileItems(project[fi]), builder)
       IN  /\ sink' = w.cur
           /\ IF w.ok
              THEN /\ fi' = fi + 1
                   /\ UNCHANGED <<pc, encResult>>
              ELSE /\ pc' = "enc_failed"
                   /\ encResult' = Err("string not found")
                   /\ UNCHANGED fi
    /\ UNCHANGED <<project, start, tamper, builder, scan, posOff>>
    /\ UNCHANGED decVars

\* lines 99-103: the offset is patched into the placeholder
EncPatch ==
    /\ pc = "files"
    /\ fi > Len(project)
    /\ LET string_table_offset == sink.pos
           cur == sink.pos
           s1 == Seek(sink, posOff)
           s2 == WriteAll(s1, U32Le(string_table_offset))
       IN  sink' = Seek(s2, cur)
    /\ pc' = "table"
    /\ UNCHANGED <<project, start, tamper, builder, scan, posOff, fi, encResult>>
    /\ UNCHANGED decVars

\* lines 105-106: the string table, then Ok(())
EncTable ==
    /\ pc = "table"
    /\ sink' = WriteAll(sink, TableBytes(builder))
    /\ pc' = "encoded"
    /\ encResult' = Ok(<<>>)
    /\ UNCHANGED <<project, start, tamper, builder, scan, posOff, fi>>
    /\ UNCHANGED decVars

\* any `?` on a write or a stream_position/seek of the sink: an I/O error
EncIoError ==
    /\ \/ pc = "scan" /\ scan = Len(AllTexts(project))
       \/ pc = "files"
       \/ pc = "table"
    /\ pc' = "enc_failed"
    /\ encResult' = Err("io")
    /\ UNCHANGED <<project, start, tamper, sink, builder, scan, posOff, fi>>
    /\ UNCHANGED decVars

(***************************************************************************)
(* Reading: Cursor::read_exact, read_u32, String::from_utf8.               *)
(* The cursor's log is the set of stream positions whose bytes were read.  *)
(***************************************************************************)
\* Read::read with the count ignored: a short read leaves the zeroed buffer's tail
ReadExactShort(c, n) ==
    LET m == IF c.pos + n <= Len(c.buf) THEN n
             ELSE IF c.pos < Len(c.buf) THEN Len(c.buf) - c.pos ELSE 0
    IN  [ok |-> TRUE,
         bytes |-> SubSeq(c.buf, c.pos + 1, c.pos + m) \o Zeros(n - m),
         cur |-> [c EXCEPT !.pos = c.pos + m,
                           !.log = @ \cup {i \in 0..(Len(c.buf)) : i >= c.pos /\ i < c.pos + m}]]

\* a short read is an UnexpectedEof error that leaves the cursor at the end
ReadExact(c, n) ==
    IF c.pos + n <= Len(c.buf)
    THEN [ok |-> TRUE,
          bytes |-> SubSeq(c.buf, c.pos + 1, c.pos + n),
          cur |-> [c EXCEPT !.pos = c.pos + n,
                            !.log = @ \cup {i \in 0..(Len(c.buf)) : i >= c.pos /\ i < c.pos + n}]]
    ELSE [ok |-> FALSE,
          bytes |-> <<>>,
          cur |-> [c EXCEPT !.pos = IF c.pos < Len(c.buf) THEN Len(c.buf) ELSE c.pos]]

ReadU32(c) ==
    LET r == ReadExact(c, 4)
    IN  [ok |-> r.ok, val |-> IF r.ok THEN U32FromLe(r.bytes) ELSE 0, cur |-> r.cur]

RECURSIVE IsUtf8(_)
IsUtf8(b) ==
    IF b = <<>> THEN TRUE
    ELSE LET h == Head(b)
             n == Len(b)
             Cont(x) == x >= 128 /\ x <= 191
         IN  IF h < 128 THEN IsUtf8(Tail(b))
             ELSE IF h >= 194 /\ h <= 223
             THEN n >= 2 /\ Cont(b[2]) /\ IsUtf8(SubSeq(b, 3, n))
             ELSE IF h >= 224 /\ h <= 239
             THEN /\ n >= 3
                  /\ Cont(b[2]) /\ Cont(b[3])
                  /\ (h = 224 => b[2] >= 160)
                  /\ (h = 237 => b[2] <= 159)
                  /\ IsUtf8(SubSeq(b, 4, n))
             ELSE IF h >= 240 /\ h <= 244
             THEN /\ n >= 4
                  /\ Cont(b[2]) /\ Cont(b[3]) /\ Cont(b[4])
                  /\ (h = 240 => b[2] >= 144)
                  /\ (h = 244 => b[2] <= 143)
                  /\ IsUtf8(SubSeq(b, 5, n))
             ELSE FALSE

(***************************************************************************)
(* StringTable (decode side).                                              *)
(***************************************************************************)
TableOk(v, c) == [ok |-> TRUE, err |-> "none", vec |-> v, cur |-> c]
TableErr(e, c) == [ok |-> FALSE, err |-> e, vec |-> <<>>, cur |-> c]

RECURSIVE ReadEntries(_, _, _)
ReadEntries(c, n, acc) ==
    IF n = 0 THEN TableOk(acc, c)
    ELSE LET l == ReadU32(c)
             b == ReadExact(l.cur, l.val)
         IN  IF ~l.ok THEN TableErr("io", l.cur)
             ELSE IF ~b.ok THEN TableErr("io", b.cur)
             ELSE IF ~IsUtf8(b.bytes) THEN TableErr("utf8", b.cur)
             ELSE ReadEntries(b.cur, n - 1, Append(acc, b.bytes))

\* StringTable::read
ReadTable(c) ==
    LET num_strings == ReadU32(c)
    IN  IF ~num_strings.ok THEN TableErr("io", num_strings.cur)
        ELSE ReadEntries(num_strings.cur, num_strings.val, <<>>)

GetLenient(t, idx) == IF idx < Len(t) THEN Ok(t[idx + 1]) ELSE Ok(<<>>)

\* StringTable::get
Get(t, idx) == IF idx < Len(t) THEN Ok(t[idx + 1]) ELSE Err("index")

(***************************************************************************)
(* Project::decode, the record loops.                                      *)
(***************************************************************************)
ListOk(v, c) == [ok |-> TRUE, err |-> "none", val |-> v, cur |-> c]
ListErr(e, c) == [ok |-> FALSE, err |-> e, val |-> <<>>, cur |-> c]

\* lines 137-140 (a Node) and 148-151 (an Annotation)
Ranged(kind, offset, end_offset, s) ==
    IF kind = "node"
    THEN Node(Range(U32AsUsize(offset), U32AsUsize(end_offset)), s)
    ELSE Annotation(Range(U32AsUsize(offset), U32AsUsize(end_offset)), s)

\* lines 133-141 (kind "node") and 144-152 (kind "annotation")
RECURSIVE ReadRanged(_, _, _, _, _)
ReadRanged(c, n, t, acc, kind) ==
    IF n = 0 THEN ListOk(acc, c)
    ELSE LET offset == ReadU32(c)
             end_offset == ReadU32(offset.cur)
             idx == ReadU32(end_offset.cur)
             s == Get(t, idx.val)
         IN  IF ~offset.ok THEN ListErr("io", offset.cur)
             ELSE IF ~end_offset.ok THEN ListErr("io", end_offset.cur)
             ELSE IF ~idx.ok THEN ListErr("io", idx.cur)
             ELSE IF ~s.ok THEN ListErr(s.err, idx.cur)
             ELSE ReadRanged(idx.cur, n - 1, t,
                             Append(acc, Ranged(kind, offset.val, end_offset.val, s.val)),
                             kind)

\* lines 129-158: one file record
ReadFile(c, t) ==
    LET path_idx == ReadU32(c)
        content_idx == ReadU32(path_idx.cur)
        num_nodes == ReadU32(content_idx.cur)
        tree == ReadRanged(num_nodes.cur, num_nodes.val, t, <<>>, "node")
        num_errors == ReadU32(tree.cur)
        errors == ReadRanged(num_errors.cur, num_errors.val, t, <<>>, "annotation")
        path == Get(t, path_idx.val)
        content == Get(t, content_idx.val)
    IN  IF ~path_idx.ok THEN ListErr("io", path_idx.cur)
        ELSE IF ~content_idx.ok THEN ListErr("io", content_idx.cur)
        ELSE IF ~num_nodes.ok THEN ListErr("io", num_nodes.cur)
        ELSE IF ~tree.ok THEN ListErr(tree.err, tree.cur)
        ELSE IF ~num_errors.ok THEN ListErr("io", num_errors.cur)
        ELSE IF ~errors.ok THEN ListErr(errors.err, errors.cur)
        ELSE IF ~path.ok THEN ListErr(path.err, errors.cur)
        ELSE IF ~content.ok THEN ListErr(content.err, errors.cur)
        ELSE ListOk(File(path.val, content.val, tree.val, errors.val), errors.cur)

MagicOkAny(b) == TRUE

\* line 112
MagicOk(b) == b = MAGIC

VersionOkLowByte(v) == v % 256 = ASSET_ENCODING_VERSION % 256

\* line 116
VersionOk(v) == v = ASSET_ENCODING_VERSION

(***************************************************************************)
(* Project::decode.                                                        *)
(***************************************************************************)
DecFail(e, c) ==
    /\ pc' = "dec_failed"
    /\ decResult' = Err(e)
    /\ reader' = c
    /\ UNCHANGED <<dec, stringTable, files>>

\* the call: the reader stands at the first byte of what encode wrote
StartDecode ==
    /\ pc = "encoded"
    /\ pc' = "magic"
    /\ reader' = [buf |-> sink.buf, pos |-> start, log |-> {}]
    /\ UNCHANGED <<dec, stringTable, files, decResult>>
    /\ UNCHANGED <<project, start, tamper>>
    /\ UNCHANGED encVars

\* lines 110-114
DecMagic ==
    /\ pc = "magic"
    /\ LET magic == ReadExact(reader, 1)
       IN  IF ~magic.ok THEN DecFail("io", magic.cur)
           ELSE IF ~MagicOk(magic.bytes[1]) THEN DecFail("magic", magic.cur)
           ELSE /\ pc' = "version"
                /\ reader' = magic.cur
                /\ UNCHANGED <<dec, stringTable, files, decResult>>
    /\ UNCHANGED <<project, start, tamper>>
    /\ UNCHANGED encVars

\* lines 115-118
DecVersion ==
    /\ pc = "version"
    /\ LET version == ReadU32(reader)
       IN  IF ~version.ok THEN DecFail("io", version.cur)
           ELSE IF ~VersionOk(version.val) THEN DecFail("version", version.cur)
           ELSE /\ pc' = "header"
                /\ reader' = version.cur
                /\ dec' = [dec EXCEPT !.version = version.val]
                /\ UNCHANGED <<stringTable, files, decResult>>
    /\ UNCHANGED <<project, start, tamper>>
    /\ UNCHANGED encVars

\* lines 119-121
DecHeader ==
    /\ pc = "header"
    /\ LET string_table_offset == ReadU32(reader)
           num_files == ReadU32(string_table_offset.cur)
       IN  IF ~string_table_offset.ok THEN DecFail("io", string_table_offset.cur)
           ELSE IF ~num_files.ok THEN DecFail("io", num_files.cur)
           ELSE /\ pc' = "strtab"
                /\ reader' = num_files.cur
                /\ dec' = [dec EXCEPT !.string_table_offset = string_table_offset.val,
                                      !.num_files = num_files.val,
                                      !.files_start = num_files.cur.pos]
                /\ UNCHANGED <<stringTable, files, decResult>>
    /\ UNCHANGED <<project, start, tamper>>
    /\ UNCHANGED encVars

\* lines 123-127
DecStringTable ==
    /\ pc = "strtab"
    /\ LET string_table == ReadTable(Seek(reader, dec.string_table_offset))
       IN  IF ~string_table.ok THEN DecFail(string_table.err, string_table.cur)
           ELSE /\ pc' = "records"
                /\ stringTable' = string_table.vec
                /\ reader' = Seek(string_table.cur, dec.files_start)
                /\ files' = <<>>
                /\ UNCHANGED <<dec, decResult>>
    /\ UNCHANGED <<project, start, tamper>>
    /\ UNCHANGED encVars

\* lines 128-159: one turn of the file loop
DecFile ==
    /\ pc = "records"
    /\ Len(files) < dec.num_files
    /\ LET file == ReadFile(reader, stringTable)
       IN  IF ~file.ok THEN DecFail(file.err, file.cur)
           ELSE /\ files' = Append(files, file.val)
                /\ reader' = file.cur
                /\ UNCHANGED <<pc, dec, stringTable, decResult>>
    /\ UNCHANGED <<project, start, tamper>>
    /\ UNCHANGED encVars

\* line 160
DecFinish ==
    /\ pc = "records"
    /\ Len(files) = dec.num_files
    /\ pc' = "decoded"
    /\ decResult' = Ok(files)
    /\ UNCHANGED <<reader, dec, stringTable, files>>
    /\ UNCHANGED <<project, start, tamper>>
    /\ UNCHANGED encVars

(***************************************************************************)
(* Corruption of the written container before it is decoded.  Offsets are  *)
(* relative to the container's first byte, which is at stream position     *)
(* `start`.                                                                *)
(***************************************************************************)
Field(buf, at) == SubSeq(buf, start + at + 1, start + at + 4)

SetBytes(buf, at, bs) ==
    [i \in 1..Len(buf) |-> IF i > start + at /\ i <= start + at + Len(bs)
                           THEN bs[i - start - at]
                           ELSE buf[i]]

Rests == {"keep", "zero", "cut"}

\* what follows the first `keep` bytes of the container: kept, zeroed or cut off
WithRest(buf, keep, rest) ==
    IF rest = "zero" THEN [i \in 1..Len(buf) |-> IF i > start + keep THEN 0 ELSE buf[i]]
    ELSE IF rest = "cut" THEN SubSeq(buf, 1, start + keep)
    ELSE buf

\* the container offsets of the string-index fields of the file records
RECURSIVE IndexOffsets(_, _)
IndexOffsets(p, base) ==
    IF p = <<>> THEN {}
    ELSE LET nodes == Len(Head(p).tree)
             anns == Len(Head(p).errors)
         IN  {base, base + 4}
               \cup {base + 12 * i + 8 : i \in 1..nodes}
               \cup {base + 12 * nodes + 12 * j + 12 : j \in 1..anns}
               \cup IndexOffsets(Tail(p), base + 16 + 12 * (nodes + anns))

BadMagics == {0, 221}
BadVersions == {0, 2, 257}

Tampered(buf, t) ==
    /\ pc = "encoded"
    /\ tamper.kind = "none"
    /\ sink' = [sink EXCEPT !.buf = buf]
    /\ tamper' = t
    /\ UNCHANGED <<project, pc, start, builder, scan, posOff, fi, encResult>>
    /\ UNCHANGED decVars

\* header bytes 5..8 point past the true start of the string table
TamperOffset ==
    \E d \in 1..MaxShift :
        LET v == U32FromLe(Field(sink.buf, 5)) + d
        IN  Tampered(SetBytes(sink.buf, 5, U32Le(v)),
                     [kind |-> "offset", at |-> 5, val |-> v, rest |-> "keep"])

\* the final byte is removed
TamperTruncate ==
    Tampered(SubSeq(sink.buf, 1, Len(sink.buf) - 1),
             [kind |-> "truncate", at |-> Len(sink.buf) - 1 - start, val |-> 0,
              rest |-> "keep"])

\* header bytes 1..4 hold another version
TamperVersion ==
    \E v \in BadVersions, rest \in Rests :
        Tampered(WithRest(SetBytes(sink.buf, 1, U32Le(v)), 5, rest),
                 [kind |-> "version", at |-> 1, val |-> v, rest |-> rest])

\* byte 0 is not the magic
TamperMagic ==
    \E b \in BadMagics, rest \in Rests :
        Tampered(WithRest(SetBytes(sink.buf, 0, <<b>>), 1, rest),
                 [kind |-> "magic", at |-> 0, val |-> b, rest |-> rest])

\* one string index of a file record is at or past the string count
TamperIndex ==
    \E at \in IndexOffsets(project, 13), d \in {0, 1} :
        LET v == Len(builder.vec) + d
        IN  Tampered(SetBytes(sink.buf, at, U32Le(v)),
                     [kind |-> "index", at |-> at, val |-> v, rest |-> "keep"])

Build(rs) == PushFile \/ PushNode(rs) \/ PushError(rs)

Encode == StartEncode \/ EncAdd \/ EncHeader \/ EncFile \/ EncPatch \/ EncTable \/ EncIoError

Decode == StartDecode \/ DecMagic \/ DecVersion \/ DecHeader \/ DecStringTable \/ DecFile \/ DecFinish

Tamper == TamperOffset \/ TamperTruncate \/ TamperVersion \/ TamperMagic \/ TamperIndex

(***************************************************************************)
(* Spec: any Project, any of the sinks, encode then decode.                *)
(***************************************************************************)
Next == Build(Ranges) \/ Encode \/ Decode

Spec == Init /\ [][Next]_vars

(***************************************************************************)
(* SpecTamper: a fresh sink, and the container may be corrupted once       *)
(* between encode and decode.                                              *)
(***************************************************************************)
InitTamper == InitWith({[buf |-> <<>>, pos |-> 0]})

NextTamper == Build(PlainRanges) \/ Encode \/ Tamper \/ Decode

SpecTamper == InitTamper /\ [][NextTamper]_vars

(***************************************************************************)
(* Vocabulary of the properties.                                           *)
(***************************************************************************)
DecodeDone == pc \in {"decoded", "dec_failed"}

\* x mod 2^32 of a usize x
Low32(x) == SubSeq(x, 1, 4) \o <<0, 0, 0, 0>>
NarrowRange(r) == Range(Low32(r.offset), Low32(r.end_offset))
NarrowFile(f) ==
    [f EXCEPT !.tree = [i \in 1..Len(f.tree) |->
                           [f.tree[i] EXCEPT !.range = NarrowRange(@)]],
              !.errors = [i \in 1..Len(f.errors) |->
                             [f.errors[i] EXCEPT !.range = NarrowRange(@)]]]
NarrowProject(p) == [i \in 1..Len(p) |-> NarrowFile(p[i])]

Below32(x) == SubSeq(x, 5, 8) = <<0, 0, 0, 0>>
RangesOf(f) ==
    {f.tree[i].range : i \in 1..Len(f.tree)} \cup {f.errors[i].range : i \in 1..Len(f.errors)}
AllBelow32(p) ==
    \A i \in 1..Len(p) : \A r \in RangesOf(p[i]) : Below32(r.offset) /\ Below32(r.end_offset)

\* the distinct elements of a sequence, each at the place of its first occurrence
RECURSIVE FirstSeen(_)
FirstSeen(s) ==
    IF s = <<>> THEN <<>>
    ELSE LET front == SubSeq(s, 1, Len(s) - 1)
         IN  IF \E i \in 1..Len(front) : front[i] = s[Len(s)]
             THEN FirstSeen(front)
             ELSE Append(FirstSeen(front), s[Len(s)])

\* the strings add was called with so far
Added == SubSeq(AllTexts(project), 1, scan)

HasEqualFields ==
    \E i, j \in 1..Len(AllTexts(project)) : i < j /\ AllTexts(project)[i] = AllTexts(project)[j]

\* the string count as written: the u32 at the offset the header names
WrittenCount ==
    LET at == U32FromLe(Field(sink.buf, 5))
    IN  U32FromLe(SubSeq(sink.buf, at + 1, at + 4))

\* the container offset of the end of the last file record
RECURSIVE RecordsEnd(_)
RecordsEnd(p) ==
    IF p = <<>> THEN 13
    ELSE 16 + 12 * (Len(Head(p).tree) + Len(Head(p).errors)) + RecordsEnd(Tail(p))

(***************************************************************************)
(* C1: round-trip identity: for any Project, decode of what encode wrote   *)
(* returns a Project equal to it, files, nodes and annotations in order.   *)
(***************************************************************************)
C1_RoundTrip == DecodeDone => decResult = Ok(project)

(***************************************************************************)
(* C2: index bound: with the header's string-table offset replaced by a    *)
(* greater value, decode fails with an index-out-of-range or an I/O error  *)
(* and never returns a Project.                                            *)
(***************************************************************************)
C2_OffsetPastTable ==
    (DecodeDone /\ tamper.kind = "offset")
        => (~decResult.ok /\ decResult.err \in {"index", "io"} /\ pc = "dec_failed")

(***************************************************************************)
(* C3: truncation safety: with the final byte removed, decode fails with   *)
(* an I/O error (a short read) and returns no Project, whatever the        *)
(* Project was.                                                            *)
(***************************************************************************)
C3_Truncation ==
    /\ (DecodeDone /\ tamper.kind = "truncate") => decResult = Err("io")
    /\ tamper.kind = "truncate" => pc # "decoded"

C3_Witness ==
    /\ pc = "dec_failed"
    /\ tamper.kind = "truncate"
    /\ decResult = Err("io")
    /\ builder.vec # <<>>
    /\ builder.vec[Len(builder.vec)] = <<>>

(***************************************************************************)
(* C4: version gate: with the magic in place and a version other than 1,   *)
(* decode fails with the version mismatch, having read the magic and the   *)
(* version only: offset, count, records and table are never consulted.     *)
(***************************************************************************)
C4_VersionGate ==
    tamper.kind = "version" =>
        /\ pc \in {"encoded", "magic", "version", "dec_failed"}
        /\ DecodeDone =>
              /\ decResult = Err("version")
              /\ reader.log = {i \in 0..(start + 4) : i >= start}
              /\ dec = NoDec
              /\ stringTable = <<>>
              /\ files = <<>>

C4_Witness ==
    /\ pc = "dec_failed"
    /\ tamper.kind = "version"
    /\ tamper.val = 257
    /\ tamper.rest = "cut"
    /\ decResult = Err("version")

(***************************************************************************)
(* C5: magic gate: the magic check is the first step of decode; a stream   *)
(* whose first byte is not the magic (all zero bytes included) fails with  *)
(* the invalid-magic error after that one byte, whatever else is wrong     *)
(* with the stream.                                                        *)
(***************************************************************************)
C5_MagicGate ==
    /\ pc = "magic" => reader.log = {}
    /\ decResult.err = "magic" => reader.log = {start}
    /\ tamper.kind = "magic" =>
          /\ pc \in {"encoded", "magic", "dec_failed"}
          /\ DecodeDone =>
                /\ decResult = Err("magic")
                /\ reader.pos = start + 1
                /\ dec = NoDec
                /\ stringTable = <<>>
                /\ files = <<>>

C5_Witness ==
    /\ pc = "dec_failed"
    /\ tamper.kind = "magic"
    /\ tamper.val = 0
    /\ tamper.rest = "zero"
    /\ \A i \in 1..Len(reader.buf) : reader.buf[i] = 0
    /\ decResult = Err("magic")

(***************************************************************************)
(* C6: string deduplication: after any sequence of add calls the table     *)
(* holds each distinct added string once, in first-seen order with dense   *)
(* indices from 0, and the map agrees with the list; so a Project with two *)
(* equal textual fields is written with a string count below the number of *)
(* textual fields.                                                         *)
(***************************************************************************)
C6_Dedup ==
    /\ builder.vec = FirstSeen(Added)
    /\ \A i, j \in 1..Len(builder.vec) : builder.vec[i] = builder.vec[j] => i = j
    /\ DOMAIN builder.map = {builder.vec[i] : i \in 1..Len(builder.vec)}
    /\ \A i \in 1..Len(builder.vec) : builder.map[builder.vec[i]] = i - 1
    /\ pc = "encoded" =>
          /\ WrittenCount = Cardinality({AllTexts(project)[i] : i \in 1..Len(AllTexts(project))})
          /\ HasEqualFields => WrittenCount < Len(AllTexts(project))

C6_Witness ==
    /\ pc = "encoded"
    /\ Len(project) = 2
    /\ project[1].content = project[2].content
    /\ project[1].path # project[2].path
    /\ WrittenCount < Len(AllTexts(project))

(***************************************************************************)
(* C7: trailing-index offset patch: after encode returns Ok, for every     *)
(* sink (also one not at position 0), the field at container offset 5      *)
(* holds the offset of the string table from the container's first byte,   *)
(* which is the end of the last file record; nothing but the placeholder   *)
(* was overwritten and the table follows the records.                      *)
(***************************************************************************)
C7_OffsetPatch ==
    pc = "encoded" =>
        /\ U32FromLe(Field(sink.buf, 5)) = RecordsEnd(project)
        /\ sink.buf[start + 1] = MAGIC
        /\ Field(sink.buf, 1) = U32Le(ASSET_ENCODING_VERSION)
        /\ Field(sink.buf, 9) = U32Le(Len(project))
        /\ SubSeq(sink.buf, start + RecordsEnd(project) + 1, Len(sink.buf)) = TableBytes(builder)
        /\ sink.pos = Len(sink.buf)

(***************************************************************************)
(* C8: the builder's "string not found" error never triggers in encode:    *)
(* every string looked up while the records are written was added by the   *)
(* scan, so encode fails with an I/O error of the sink or not at all.      *)
(***************************************************************************)
C8_IdxNeverFails ==
    /\ encResult.err # "string not found"
    /\ pc = "enc_failed" => encResult = Err("io")
    /\ pc = "files" =>
          \A i \in 1..Len(project) :
              \A k \in 1..Len(FileItems(project[i])) :
                  FileItems(project[i])[k].str => Idx(builder, FileItems(project[i])[k].s).ok

C8_Witness ==
    /\ pc = "encoded"
    /\ encResult.ok
    /\ \E i \in 1..Len(project) : project[i].tree # <<>> /\ project[i].errors # <<>>

(***************************************************************************)
(* C9: string index bound on decode: get fails with "index out of range"   *)
(* for an index at or past the count; with a valid header, a loadable      *)
(* table and complete records, a record whose path, content, node-type or  *)
(* annotation-text index is at or past the string count makes decode fail  *)
(* with that error, and no Project (no partial file list) is returned.     *)
(***************************************************************************)
C9_IndexBound ==
    /\ (DecodeDone /\ tamper.kind = "index") =>
          /\ pc = "dec_failed"
          /\ decResult = Err("index")
    /\ pc \in {"records", "decoded"} =>
          /\ Get(stringTable, Len(stringTable)) = Err("index")
          /\ \A i \in 1..Len(stringTable) : Get(stringTable, i - 1) = Ok(stringTable[i])
    /\ (decResult.err = "index") => tamper.kind \in {"index", "offset"}

C9_Witness ==
    /\ pc = "dec_failed"
    /\ tamper.kind = "index"
    /\ decResult = Err("index")
    /\ files # <<>>
    /\ tamper.val = Len(stringTable)

====
